---- MODULE Spec2Model ----
(***************************************************************************)
(* Model of the provider configuration of terraform-provider-awssso:       *)
(* Config.Client, AWSClient.PartitionHostname and                          *)
(* AWSClient.RegionalHostname.                                             *)
(*                                                                         *)
(* Go strings that are only carried around (keys, tokens, ARNs, account    *)
(* IDs, URLs) are TLA+ strings.  Go strings that are formatted into host   *)
(* names (region, DNS suffix, prefix) are sequences of one-character       *)
(* strings, so that fmt.Sprintf is modelled character by character.        *)
(* Go slices are sequences, Go maps are functions on the set of present    *)
(* keys, a Go error is a record ([kind |-> "nil"] for the nil error).      *)
(***************************************************************************)
EXTENDS Integers, Sequences, FiniteSets, TLC

VARIABLES c, pc, client, err, awsbaseConfig, sessOut, sessionCalls, hostname

vars == <<c, pc, client, err, awsbaseConfig, sessOut, sessionCalls, hostname>>

(***************************************************************************)
(* Bounds.                                                                 *)
(***************************************************************************)
\* longest prefix handed to PartitionHostname / RegionalHostname
MaxPrefixLen == 2

(***************************************************************************)
(* Character strings.                                                      *)
(***************************************************************************)
UsWest2 == <<"u", "s", "-", "w", "e", "s", "t", "-", "2">>

CnNorth1 == <<"c", "n", "-", "n", "o", "r", "t", "h", "-", "1">>

UsIsoEast1 == <<"u", "s", "-", "i", "s", "o", "-", "e", "a", "s", "t", "-", "1">>

\* matches the region pattern of the aws partition, but is not a listed region
UsFake9 == <<"u", "s", "-", "f", "a", "k", "e", "-", "9">>

\* matches no partition at all
Mars1 == <<"m", "a", "r", "s", "-", "1">>

AmazonawsCom == <<"a", "m", "a", "z", "o", "n", "a", "w", "s", ".", "c", "o", "m">>

AmazonawsComCn == AmazonawsCom \o <<".", "c", "n">>

C2sIcGov == <<"c", "2", "s", ".", "i", "c", ".", "g", "o", "v">>

Regions == {UsWest2, CnNorth1, UsIsoEast1, UsFake9, Mars1}

PrefixChars == {"s", "."}

RECURSIVE SeqsUpTo(_, _)
SeqsUpTo(S, n) ==
    IF n = 0 THEN {<<>>}
    ELSE LET shorter == SeqsUpTo(S, n - 1)
         IN  shorter \cup {Append(s, x) : s \in {t \in shorter : Len(t) = n - 1}, x \in S}

Prefixes == SeqsUpTo(PrefixChars, MaxPrefixLen)

(***************************************************************************)
(* Errors.                                                                 *)
(***************************************************************************)
NilErr == [kind |-> "nil"]

\* fmt.Errorf(format, arg) without %w: an error that only has a message
ErrorString(msg, arg) == [kind |-> "errorString", msg |-> msg, arg |-> arg]

\* fmt.Errorf("...: %w", e): an error with a message that unwraps to e
WrapError(msg, e) == [kind |-> "wrapError", msg |-> msg, err |-> e]

(***************************************************************************)
(* Imported functions (github.com/hashicorp/aws-sdk-go-base v0.7.1 and     *)
(* github.com/aws/aws-sdk-go v1.38.31, pinned in go.mod).                  *)
(***************************************************************************)
\* endpoints.DefaultPartitions(): the regions each partition lists
ListedRegions == {UsWest2, CnNorth1, UsIsoEast1}

\* endpoints.PartitionForRegion: the partition that lists the region or whose
\* region pattern matches it; "" when there is none (ok = false)
PartitionForRegion(region) ==
    CASE region = UsWest2 -> "aws"
      [] region = UsFake9 -> "aws"
      [] region = CnNorth1 -> "aws-cn"
      [] region = UsIsoEast1 -> "aws-iso"
      [] OTHER -> ""

\* Partition.DNSSuffix()
DNSSuffix(p) ==
    CASE p = "aws" -> AmazonawsCom
      [] p = "aws-cn" -> AmazonawsComCn
      [] p = "aws-iso" -> C2sIcGov

\* awsbase.ValidateRegion
ValidateRegion(region) ==
    IF region \in ListedRegions THEN NilErr
    ELSE ErrorString("Invalid AWS Region: %s", region)

InList(x, list) == \E i \in 1..Len(list) : list[i] = x

\* awsbase.ValidateAccountID
ValidateAccountID(accountID, allowed, forbidden) ==
    IF Len(forbidden) > 0 /\ InList(accountID, forbidden)
    THEN ErrorString("Forbidden AWS Account ID: %s", accountID)
    ELSE IF Len(allowed) > 0 /\ ~InList(accountID, allowed)
         THEN ErrorString("AWS Account ID not allowed: %s", accountID)
         ELSE NilErr

\* errors awsbase.GetSessionWithAccountIDAndPartition can return
SessionErrors ==
    {ErrorString("No valid credential sources found", ""),
     ErrorString("error validating provider credentials", "")}

\* account IDs the session setup can find ("" when none was found)
AccountIDs == {"", "111111111111", "222222222222"}

\* partitions the session setup can report
Partitions == {"aws", "aws-cn"}

(***************************************************************************)
(* fmt.Sprintf for formats made of literal characters and %s verbs.        *)
(***************************************************************************)
MissingArg == <<"%", "!", "s", "(", "M", "I", "S", "S", "I", "N", "G", ")">>

RECURSIVE Sprintf(_, _)
Sprintf(format, args) ==
    IF format = <<>> THEN <<>>
    ELSE IF Len(format) >= 2 /\ format[1] = "%" /\ format[2] = "s"
         THEN IF args = <<>>
              THEN MissingArg \o Sprintf(SubSeq(format, 3, Len(format)), args)
              ELSE Head(args) \o Sprintf(SubSeq(format, 3, Len(format)), Tail(args))
         ELSE <<format[1]>> \o Sprintf(Tail(format), args)

(***************************************************************************)
(* AWSClient.                                                              *)
(***************************************************************************)
NilClient == [nil |-> TRUE]

NilConn == [nil |-> TRUE]

\* a bug that strips the trailing period of the prefix before formatting
PartitionHostnameTrimmed(cl, prefix) ==
    IF prefix # <<>> /\ prefix[Len(prefix)] = "."
    THEN Sprintf(<<"%", "s", ".", "%", "s">>, <<SubSeq(prefix, 1, Len(prefix) - 1), cl.dnsSuffix>>)
    ELSE Sprintf(<<"%", "s", ".", "%", "s">>, <<prefix, cl.dnsSuffix>>)

PartitionHostname(cl, prefix) ==
    Sprintf(<<"%", "s", ".", "%", "s">>, <<prefix, cl.dnsSuffix>>)

\* a bug that passes the suffix and the region in the wrong order
RegionalHostnameSwapped(cl, prefix) ==
    Sprintf(<<"%", "s", ".", "%", "s", ".", "%", "s">>, <<prefix, cl.dnsSuffix, cl.region>>)

RegionalHostname(cl, prefix) ==
    Sprintf(<<"%", "s", ".", "%", "s", ".", "%", "s">>, <<prefix, cl.region, cl.dnsSuffix>>)

(***************************************************************************)
(* Config.                                                                 *)
(***************************************************************************)
\* Go map index expression m[k]: the zero value when the key is absent
MapGet(m, k) == IF k \in DOMAIN m THEN m[k] ELSE ""

EmptyMap == [k \in {} |-> ""]

EndpointMaps ==
    {EmptyMap,
     [k \in {"iam"} |-> "https://iam.local"],
     [k \in {"sts"} |-> "https://sts.local"],
     [k \in {"iam", "sts", "s3"} |->
        CASE k = "iam" -> "https://iam.corp" [] k = "sts" -> "https://sts.corp" [] OTHER -> "https://s3.corp"]}

\* the fields Client only copies, varied together
PassedFields ==
    {[AccessKey |-> "AKIAEXAMPLE", SecretKey |-> "secretkey", Token |-> "token",
      Profile |-> "", CredsFilename |-> "", MaxRetries |-> 25,
      AssumeRoleARN |-> "", AssumeRoleDurationSeconds |-> 0, AssumeRoleExternalID |-> "",
      AssumeRolePolicy |-> "", AssumeRolePolicyARNs |-> <<>>, AssumeRoleSessionName |-> "",
      AssumeRoleTags |-> EmptyMap, AssumeRoleTransitiveTagKeys |-> <<>>,
      DefaultTagsConfig |-> "nil", IgnoreTagsConfig |-> "nil", Insecure |-> FALSE,
      SkipCredsValidation |-> FALSE, SkipGetEC2Platforms |-> FALSE,
      SkipRequestingAccountId |-> FALSE, SkipMetadataApiCheck |-> TRUE,
      S3ForcePathStyle |-> FALSE, terraformVersion |-> "0.14.0"],
     [AccessKey |-> "", SecretKey |-> "", Token |-> "",
      Profile |-> "dev", CredsFilename |-> "/home/dev/.aws/credentials", MaxRetries |-> 3,
      AssumeRoleARN |-> "arn:aws:iam::111111111111:role/admin", AssumeRoleDurationSeconds |-> 900,
      AssumeRoleExternalID |-> "external", AssumeRolePolicy |-> "{policy}",
      AssumeRolePolicyARNs |-> <<"arn:aws:iam::aws:policy/ReadOnlyAccess">>,
      AssumeRoleSessionName |-> "session",
      AssumeRoleTags |-> [k \in {"team"} |-> "infra"], AssumeRoleTransitiveTagKeys |-> <<"team">>,
      DefaultTagsConfig |-> "defaultTags", IgnoreTagsConfig |-> "ignoreTags", Insecure |-> TRUE,
      SkipCredsValidation |-> TRUE, SkipGetEC2Platforms |-> TRUE,
      SkipRequestingAccountId |-> FALSE, SkipMetadataApiCheck |-> FALSE,
      S3ForcePathStyle |-> TRUE, terraformVersion |-> "0.15.3"],
     [AccessKey |-> "AKIAOTHER", SecretKey |-> "othersecret", Token |-> "",
      Profile |-> "ci", CredsFilename |-> "", MaxRetries |-> 0,
      AssumeRoleARN |-> "arn:aws:iam::222222222222:role/ci", AssumeRoleDurationSeconds |-> 0,
      AssumeRoleExternalID |-> "", AssumeRolePolicy |-> "",
      AssumeRolePolicyARNs |-> <<>>, AssumeRoleSessionName |-> "ci",
      AssumeRoleTags |-> EmptyMap, AssumeRoleTransitiveTagKeys |-> <<>>,
      DefaultTagsConfig |-> "defaultTags", IgnoreTagsConfig |-> "nil", Insecure |-> FALSE,
      SkipCredsValidation |-> FALSE, SkipGetEC2Platforms |-> TRUE,
      SkipRequestingAccountId |-> TRUE, SkipMetadataApiCheck |-> TRUE,
      S3ForcePathStyle |-> FALSE, terraformVersion |-> ""]}

\* AllowedAccountIds and ForbiddenAccountIds
AccountLists ==
    {[AllowedAccountIds |-> <<>>, ForbiddenAccountIds |-> <<>>],
     [AllowedAccountIds |-> <<"111111111111">>, ForbiddenAccountIds |-> <<>>],
     [AllowedAccountIds |-> <<"">>, ForbiddenAccountIds |-> <<>>],
     [AllowedAccountIds |-> <<>>, ForbiddenAccountIds |-> <<"111111111111">>],
     [AllowedAccountIds |-> <<>>, ForbiddenAccountIds |-> <<"">>],
     [AllowedAccountIds |-> <<"111111111111", "222222222222">>,
      ForbiddenAccountIds |-> <<"222222222222">>]}

Configs ==
    {p @@ l @@ [Region |-> r, Endpoints |-> e, SkipRegionValidation |-> s] :
        p \in PassedFields, l \in AccountLists, r \in Regions, e \in EndpointMaps, s \in BOOLEAN}

(***************************************************************************)
(* Config.Client, step by step.                                            *)
(***************************************************************************)
\* a copy-and-paste bug that fills StsEndpoint from the "iam" key
AwsbaseConfigWrongSts(cfg, debug) ==
    [AccessKey |-> cfg.AccessKey,
     AssumeRoleARN |-> cfg.AssumeRoleARN,
     AssumeRoleDurationSeconds |-> cfg.AssumeRoleDurationSeconds,
     AssumeRoleExternalID |-> cfg.AssumeRoleExternalID,
     AssumeRolePolicy |-> cfg.AssumeRolePolicy,
     AssumeRolePolicyARNs |-> cfg.AssumeRolePolicyARNs,
     AssumeRoleSessionName |-> cfg.AssumeRoleSessionName,
     AssumeRoleTags |-> cfg.AssumeRoleTags,
     AssumeRoleTransitiveTagKeys |-> cfg.AssumeRoleTransitiveTagKeys,
     CallerDocumentationURL |-> "https://registry.terraform.io/providers/hashicorp/aws",
     CallerName |-> "Terraform AWS Provider",
     CredsFilename |-> cfg.CredsFilename,
     DebugLogging |-> debug,
     IamEndpoint |-> MapGet(cfg.Endpoints, "iam"),
     Insecure |-> cfg.Insecure,
     MaxRetries |-> cfg.MaxRetries,
     Profile |-> cfg.Profile,
     Region |-> cfg.Region,
     SecretKey |-> cfg.SecretKey,
     SkipCredsValidation |-> cfg.SkipCredsValidation,
     SkipMetadataApiCheck |-> cfg.SkipMetadataApiCheck,
     SkipRequestingAccountId |-> cfg.SkipRequestingAccountId,
     StsEndpoint |-> MapGet(cfg.Endpoints, "iam"),
     Token |-> cfg.Token,
     UserAgentProducts |->
        <<[Name |-> "APN", Version |-> "1.0", Extra |-> <<>>],
          [Name |-> "HashiCorp", Version |-> "1.0", Extra |-> <<>>],
          [Name |-> "Terraform", Version |-> cfg.terraformVersion,
           Extra |-> <<"+https://www.terraform.io">>]>>]

\* the awsbase.Config literal; debug is the value of logging.IsDebugOrHigher()
AwsbaseConfig(cfg, debug) ==
    [AccessKey |-> cfg.AccessKey,
     AssumeRoleARN |-> cfg.AssumeRoleARN,
     AssumeRoleDurationSeconds |-> cfg.AssumeRoleDurationSeconds,
     AssumeRoleExternalID |-> cfg.AssumeRoleExternalID,
     AssumeRolePolicy |-> cfg.AssumeRolePolicy,
     AssumeRolePolicyARNs |-> cfg.AssumeRolePolicyARNs,
     AssumeRoleSessionName |-> cfg.AssumeRoleSessionName,
     AssumeRoleTags |-> cfg.AssumeRoleTags,
     AssumeRoleTransitiveTagKeys |-> cfg.AssumeRoleTransitiveTagKeys,
     CallerDocumentationURL |-> "https://registry.terraform.io/providers/hashicorp/aws",
     CallerName |-> "Terraform AWS Provider",
     CredsFilename |-> cfg.CredsFilename,
     DebugLogging |-> debug,
     IamEndpoint |-> MapGet(cfg.Endpoints, "iam"),
     Insecure |-> cfg.Insecure,
     MaxRetries |-> cfg.MaxRetries,
     Profile |-> cfg.Profile,
     Region |-> cfg.Region,
     SecretKey |-> cfg.SecretKey,
     SkipCredsValidation |-> cfg.SkipCredsValidation,
     SkipMetadataApiCheck |-> cfg.SkipMetadataApiCheck,
     SkipRequestingAccountId |-> cfg.SkipRequestingAccountId,
     StsEndpoint |-> MapGet(cfg.Endpoints, "sts"),
     Token |-> cfg.Token,
     UserAgentProducts |->
        <<[Name |-> "APN", Version |-> "1.0", Extra |-> <<>>],
          [Name |-> "HashiCorp", Version |-> "1.0", Extra |-> <<>>],
          [Name |-> "Terraform", Version |-> cfg.terraformVersion,
           Extra |-> <<"+https://www.terraform.io">>]>>]

\* what awsbase.GetSessionWithAccountIDAndPartition can return for a
\* configuration: an error, or a session with an account ID and a partition
SessionOutcomes(bc) ==
    {[called |-> TRUE, sess |-> NilConn, accountID |-> "", partition |-> "", err |-> e] :
        e \in SessionErrors}
    \cup
    {[called |-> TRUE, sess |-> [config |-> bc], accountID |-> a, partition |-> p, err |-> NilErr] :
        a \in AccountIDs, p \in Partitions}

\* a bug that formats the cause with %v and so loses it
ConfigureErrorFlattened(e) ==
    ErrorString("error configuring Terraform AWS Provider: %v", e.msg)

\* the error Client returns when the session setup fails with e
ConfigureError(e) ==
    WrapError("error configuring Terraform AWS Provider: %w", e)

\* a bug that passes the two lists in the wrong order
CheckAccountIDSwapped(cfg, accountID) ==
    ValidateAccountID(accountID, cfg.ForbiddenAccountIds, cfg.AllowedAccountIds)

\* the account check of Client
CheckAccountID(cfg, accountID) ==
    ValidateAccountID(accountID, cfg.AllowedAccountIds, cfg.ForbiddenAccountIds)

\* a bug that forgets the default suffix
DnsSuffixNoDefault(cfg) ==
    IF PartitionForRegion(cfg.Region) # ""
    THEN DNSSuffix(PartitionForRegion(cfg.Region))
    ELSE <<>>

\* the DNS suffix of the client
DnsSuffix(cfg) ==
    IF PartitionForRegion(cfg.Region) # ""
    THEN DNSSuffix(PartitionForRegion(cfg.Region))
    ELSE AmazonawsCom

\* sess.Copy(&aws.Config{Endpoint: ...}): a non-nil Endpoint, the empty
\* string included, replaces the one of the session
SessionCopy(sess, endpoint) ==
    [config |-> sess.config, Endpoint |-> endpoint]

\* iam.New
IamNew(sess) ==
    [ServiceName |-> "iam", Endpoint |-> sess.Endpoint, Region |-> sess.config.Region]

\* the AWSClient literal
NewAWSClient(cfg, out) ==
    [accountid |-> out.accountID,
     DefaultTagsConfig |-> cfg.DefaultTagsConfig,
     dnsSuffix |-> DnsSuffix(cfg),
     iamconn |-> IamNew(SessionCopy(out.sess, MapGet(cfg.Endpoints, "iam"))),
     IgnoreTagsConfig |-> cfg.IgnoreTagsConfig,
     partition |-> out.partition,
     region |-> cfg.Region,
     terraformVersion |-> cfg.terraformVersion]

NoConfig == [built |-> FALSE]

NoCall == [called |-> FALSE]

NoHostname == [fn |-> "none"]

Init ==
    /\ c \in Configs
    /\ pc = "start"
    /\ client = NilClient
    /\ err = NilErr
    /\ awsbaseConfig = NoConfig
    /\ sessOut = NoCall
    /\ sessionCalls = 0
    /\ hostname = NoHostname

\* Config.Client.  The configurations for the global services and for S3 it
\* builds after the client are locals that are dropped on return.
Client ==
    /\ pc = "start"
    /\ pc' = "returned"
    /\ IF ~c.SkipRegionValidation /\ ValidateRegion(c.Region) # NilErr
       THEN /\ client' = NilClient
            /\ err' = ValidateRegion(c.Region)
            /\ UNCHANGED <<awsbaseConfig, sessOut, sessionCalls>>
       ELSE \E debug \in BOOLEAN :
            \E out \in SessionOutcomes(AwsbaseConfig(c, debug)) :
                /\ awsbaseConfig' = AwsbaseConfig(c, debug) @@ [built |-> TRUE]
                /\ sessOut' = out
                /\ sessionCalls' = sessionCalls + 1
                /\ IF out.err # NilErr
                   THEN /\ client' = NilClient
                        /\ err' = ConfigureError(out.err)
                   ELSE IF CheckAccountID(c, out.accountID) # NilErr
                        THEN /\ client' = NilClient
                             /\ err' = CheckAccountID(c, out.accountID)
                        ELSE /\ client' = NewAWSClient(c, out)
                             /\ err' = NilErr
    /\ UNCHANGED <<c, hostname>>

\* a call of PartitionHostname on the client Client returned
CallPartitionHostname ==
    /\ pc = "returned"
    /\ client # NilClient
    /\ \E prefix \in Prefixes :
        hostname' = [fn |-> "PartitionHostname", prefix |-> prefix,
                     result |-> PartitionHostname(client, prefix)]
    /\ UNCHANGED <<c, pc, client, err, awsbaseConfig, sessOut, sessionCalls>>

\* a call of RegionalHostname on the client Client returned
CallRegionalHostname ==
    /\ pc = "returned"
    /\ client # NilClient
    /\ \E prefix \in Prefixes :
        hostname' = [fn |-> "RegionalHostname", prefix |-> prefix,
                     result |-> RegionalHostname(client, prefix)]
    /\ UNCHANGED <<c, pc, client, err, awsbaseConfig, sessOut, sessionCalls>>

Next ==
    \/ Client
    \/ CallPartitionHostname
    \/ CallRegionalHostname

Spec == Init /\ [][Next]_vars

(***************************************************************************)
(* Properties.                                                             *)
(***************************************************************************)
ConfigureMessage == "error configuring Terraform AWS Provider: %w"

\* C1: whenever Client returns without error, the client is fully
\* initialized: iamconn is not nil, region is the Config's Region, accountid
\* and partition are those the session setup returned, DefaultTagsConfig,
\* IgnoreTagsConfig and terraformVersion are the Config's, and dnsSuffix is
\* not empty.
C1_FullyInitialized ==
    (pc = "returned" /\ err = NilErr) =>
        /\ client # NilClient
        /\ client.iamconn # NilConn
        /\ client.iamconn.ServiceName = "iam"
        /\ client.region = c.Region
        /\ client.accountid = sessOut.accountID
        /\ client.partition = sessOut.partition
        /\ client.DefaultTagsConfig = c.DefaultTagsConfig
        /\ client.IgnoreTagsConfig = c.IgnoreTagsConfig
        /\ client.terraformVersion = c.terraformVersion
        /\ Len(client.dnsSuffix) > 0

\* Client returned a client for a region no partition matches
C1_Witness ==
    /\ pc = "returned"
    /\ err = NilErr
    /\ client # NilClient
    /\ PartitionForRegion(c.Region) = ""
    /\ client.accountid = "222222222222"
    /\ client.DefaultTagsConfig = "defaultTags"

\* C2: the session configuration handed to the base library carries the
\* Config's credentials, Region, MaxRetries, Insecure, skip flags and
\* AssumeRole fields unchanged, IamEndpoint is Endpoints["iam"] and
\* StsEndpoint is Endpoints["sts"] (the empty string when the key is
\* absent), and the IAM client of the returned client is built with the same
\* endpoint as IamEndpoint.
C2_SessionConfig ==
    awsbaseConfig # NoConfig =>
        /\ awsbaseConfig.AccessKey = c.AccessKey
        /\ awsbaseConfig.SecretKey = c.SecretKey
        /\ awsbaseConfig.Token = c.Token
        /\ awsbaseConfig.Profile = c.Profile
        /\ awsbaseConfig.CredsFilename = c.CredsFilename
        /\ awsbaseConfig.Region = c.Region
        /\ awsbaseConfig.MaxRetries = c.MaxRetries
        /\ awsbaseConfig.Insecure = c.Insecure
        /\ awsbaseConfig.SkipCredsValidation = c.SkipCredsValidation
        /\ awsbaseConfig.SkipMetadataApiCheck = c.SkipMetadataApiCheck
        /\ awsbaseConfig.SkipRequestingAccountId = c.SkipRequestingAccountId
        /\ awsbaseConfig.AssumeRoleARN = c.AssumeRoleARN
        /\ awsbaseConfig.AssumeRoleDurationSeconds = c.AssumeRoleDurationSeconds
        /\ awsbaseConfig.AssumeRoleExternalID = c.AssumeRoleExternalID
        /\ awsbaseConfig.AssumeRolePolicy = c.AssumeRolePolicy
        /\ awsbaseConfig.AssumeRolePolicyARNs = c.AssumeRolePolicyARNs
        /\ awsbaseConfig.AssumeRoleSessionName = c.AssumeRoleSessionName
        /\ awsbaseConfig.AssumeRoleTags = c.AssumeRoleTags
        /\ awsbaseConfig.AssumeRoleTransitiveTagKeys = c.AssumeRoleTransitiveTagKeys
        /\ IF "iam" \in DOMAIN c.Endpoints
           THEN awsbaseConfig.IamEndpoint = c.Endpoints["iam"]
           ELSE awsbaseConfig.IamEndpoint = ""
        /\ IF "sts" \in DOMAIN c.Endpoints
           THEN awsbaseConfig.StsEndpoint = c.Endpoints["sts"]
           ELSE awsbaseConfig.StsEndpoint = ""
        /\ sessOut.err = NilErr => sessOut.sess.config @@ [built |-> TRUE] = awsbaseConfig
        /\ client # NilClient => client.iamconn.Endpoint = awsbaseConfig.IamEndpoint

\* Client returned a client for a Config with an "iam" endpoint and no "sts"
\* endpoint
C2_Witness ==
    /\ awsbaseConfig # NoConfig
    /\ client # NilClient
    /\ DOMAIN c.Endpoints = {"iam"}
    /\ c.AssumeRoleARN # ""
    /\ awsbaseConfig.StsEndpoint = ""

\* C3 as claimed: whenever region validation, session creation or account-ID
\* validation fails, Client returns that step's error as is, with a nil
\* client and without a retry.
C3_PassThroughAsIs ==
    pc = "returned" =>
        /\ (~c.SkipRegionValidation /\ ValidateRegion(c.Region) # NilErr) =>
              /\ err = ValidateRegion(c.Region)
              /\ client = NilClient
              /\ sessionCalls = 0
        /\ (sessOut # NoCall /\ sessOut.err # NilErr) =>
              /\ err = sessOut.err
              /\ client = NilClient
              /\ sessionCalls = 1
        /\ (/\ sessOut # NoCall
            /\ sessOut.err = NilErr
            /\ ValidateAccountID(sessOut.accountID, c.AllowedAccountIds,
                                 c.ForbiddenAccountIds) # NilErr) =>
              /\ err = ValidateAccountID(sessOut.accountID, c.AllowedAccountIds,
                                         c.ForbiddenAccountIds)
              /\ client = NilClient
              /\ sessionCalls = 1

\* C3 as amended: the errors of region validation and of account-ID
\* validation are returned as they are; the error of the session setup is
\* returned wrapped in a new error with the message "error configuring
\* Terraform AWS Provider: " that unwraps to it.  In all three cases the
\* client is nil and the session setup ran at most once.
C3_PassThrough ==
    pc = "returned" =>
        /\ (~c.SkipRegionValidation /\ ValidateRegion(c.Region) # NilErr) =>
              /\ err = ValidateRegion(c.Region)
              /\ client = NilClient
              /\ sessionCalls = 0
        /\ (sessOut # NoCall /\ sessOut.err # NilErr) =>
              /\ err = WrapError(ConfigureMessage, sessOut.err)
              /\ err # sessOut.err
              /\ err.err = sessOut.err
              /\ client = NilClient
              /\ sessionCalls = 1
        /\ (/\ sessOut # NoCall
            /\ sessOut.err = NilErr
            /\ ValidateAccountID(sessOut.accountID, c.AllowedAccountIds,
                                 c.ForbiddenAccountIds) # NilErr) =>
              /\ err = ValidateAccountID(sessOut.accountID, c.AllowedAccountIds,
                                         c.ForbiddenAccountIds)
              /\ client = NilClient
              /\ sessionCalls = 1

\* Client returned after the session setup failed
C3_Witness ==
    /\ pc = "returned"
    /\ sessOut # NoCall
    /\ sessOut.err # NilErr
    /\ err # NilErr

\* C4: PartitionHostname(prefix) is the prefix, one period, then the
\* client's dnsSuffix, and the call leaves the client unchanged; a prefix
\* that ends in a period gives two periods in a row.
C4_PartitionHostname ==
    [][(hostname' # hostname /\ hostname'.fn = "PartitionHostname") =>
          LET p == hostname'.prefix
              r == hostname'.result
          IN  /\ client' = client
              /\ Len(r) = Len(p) + 1 + Len(client.dnsSuffix)
              /\ SubSeq(r, 1, Len(p)) = p
              /\ r[Len(p) + 1] = "."
              /\ SubSeq(r, Len(p) + 2, Len(r)) = client.dnsSuffix
              /\ (p # <<>> /\ p[Len(p)] = ".") =>
                    (r[Len(p)] = "." /\ r[Len(p) + 1] = ".")]_vars

\* PartitionHostname was called with a prefix that ends in a period
C4_Witness ==
    /\ hostname.fn = "PartitionHostname"
    /\ hostname.prefix = <<"s", ".">>
    /\ client.dnsSuffix = AmazonawsComCn

\* C5: RegionalHostname(prefix) is the prefix, a period, the client's
\* region, a period, then the client's dnsSuffix, which is
\* PartitionHostname(prefix + "." + region) on the same client.
C5_RegionalHostname ==
    hostname.fn = "RegionalHostname" =>
        /\ hostname.result =
              hostname.prefix \o <<".">> \o client.region \o <<".">> \o client.dnsSuffix
        /\ hostname.result =
              PartitionHostname(client, hostname.prefix \o <<".">> \o client.region)

\* RegionalHostname was called on a client whose region and suffix differ
C5_Witness ==
    /\ hostname.fn = "RegionalHostname"
    /\ hostname.prefix = <<"s">>
    /\ client.region = CnNorth1

\* C6 as claimed: a returned client's accountid is not in
\* ForbiddenAccountIds and, when AllowedAccountIds is not empty, is in it;
\* and an empty account ID with a non-empty AllowedAccountIds makes Client
\* fail.
C6_AccountExcluded ==
    pc = "returned" =>
        /\ err = NilErr =>
              /\ ~InList(client.accountid, c.ForbiddenAccountIds)
              /\ Len(c.AllowedAccountIds) > 0 => InList(client.accountid, c.AllowedAccountIds)
        /\ (/\ sessOut # NoCall
            /\ sessOut.err = NilErr
            /\ sessOut.accountID = ""
            /\ Len(c.AllowedAccountIds) > 0) =>
              (err # NilErr /\ client = NilClient)

\* C6 as amended: a returned client's accountid is not in
\* ForbiddenAccountIds and, when AllowedAccountIds is not empty, is in it;
\* and an empty account ID with a non-empty AllowedAccountIds that does not
\* hold the empty string makes Client fail.
C6_AccountChecked ==
    pc = "returned" =>
        /\ err = NilErr =>
              /\ ~InList(client.accountid, c.ForbiddenAccountIds)
              /\ Len(c.AllowedAccountIds) > 0 => InList(client.accountid, c.AllowedAccountIds)
        /\ (/\ sessOut # NoCall
            /\ sessOut.err = NilErr
            /\ sessOut.accountID = ""
            /\ Len(c.AllowedAccountIds) > 0
            /\ ~InList("", c.AllowedAccountIds)) =>
              (err # NilErr /\ client = NilClient)

\* the session found no account ID and the Config allows one account
C6_Witness ==
    /\ pc = "returned"
    /\ sessOut # NoCall
    /\ sessOut.err = NilErr
    /\ sessOut.accountID = ""
    /\ c.AllowedAccountIds = <<"111111111111">>
    /\ err # NilErr

====
